---- MODULE Spec2Model ----
(***************************************************************************)
(* Upload orchestration engine of YuntuServer: the UploadTask / TaskFile   *)
(* state machines, content-hash deduplication, the chunked-transfer        *)
(* protocol, folder materialization and storage-manifest generation        *)
(* (app/services/file_upload_service.py, app/services/upload_task_service  *)
(* .py, app/api/v1/oss_callback.py, app/models/*.py).                      *)
(*                                                                         *)
(* One HTTP request is one database session (app/db/session.py get_db):    *)
(* what a handler committed stays, what it left uncommitted when an        *)
(* exception escapes is rolled back.  The blob store is the external       *)
(* collaborator of spec section 6: each call either succeeds or raises.    *)
(***************************************************************************)
EXTENDS Integers, Sequences, FiniteSets, TLC

\* ------------------------------------------------------------------ bounds
NFiles == 2              \* TaskFiles declared by the manifest
MaxKeys == 2             \* object keys _generate_oss_key may hand out
MaxFileRows == 3         \* rows of the files table
MaxRetryCount == 4       \* retry_count values explored (the code has no cap)
MaxChunkIndex == 2       \* chunk indices a client sends
MaxOps == 5              \* requests served in one behaviour of Spec
NCallers == 2            \* concurrent create_task requests in SpecFolder
MaxCalls == 2            \* create_task requests one client sends in SpecFolder
MaxForeign == 2          \* requests of callers who do not own the task in SpecOwner
MaxExports == 2          \* export-manifest requests in a row in SpecExport

\* ------------------------------------------------------- program constants
CHUNK_SIZE == 5242880
MaxRetries == 3
NoKey == 0
NoFile == 0
NoTime == 0

NoMd5 == "NULL"
Hashes == {"h1", "h2"}
\* Drive ids: the task's drive, and another drive of the same deployment.
TaskDrive == "d1"
Drives == {"d1", "d2"}
FileIds == 1..NFiles
\* The manifests a client submits: one whose declared totals are those of its
\* file list (two files of one hash and size), and one whose declared totals
\* are not (more files, fewer bytes); create_task stores either as declared.
\* The first sends one local file to a folder of its own per entry, the second
\* sends a local file of its own per entry.
Manifests ==
    {[sizes |-> [f \in FileIds |-> 1000], md5 |-> "h1",
      total_files |-> NFiles, total_size |-> 1000 * NFiles,
      local_path |-> [f \in FileIds |-> <<"C:", "x">>],
      virtual_path |-> [f \in FileIds |-> <<"dir", f, "x">>]],
     [sizes |-> [f \in FileIds |-> 1000 * f], md5 |-> "h2",
      total_files |-> NFiles + 2, total_size |-> 1000,
      local_path |-> [f \in FileIds |-> <<"C:", f>>],
      virtual_path |-> [f \in FileIds |-> <<"dir", f>>]]}
ReqSizes == {0, CHUNK_SIZE + 1}
ClientKeys == {-1, -2, -3}

PENDING == "PENDING"
UPLOADING == "UPLOADING"
COMPLETED == "COMPLETED"
FAILED == "FAILED"
SKIPPED == "SKIPPED"
CANCELLED == "CANCELLED"
FileUploadStatus == {PENDING, UPLOADING, COMPLETED, FAILED, SKIPPED}
TaskStatus == {PENDING, UPLOADING, COMPLETED, FAILED, CANCELLED}

\* ------------------------------------------------------------------- state
VARIABLES
    task,        \* the upload_tasks row, << >> before createTask
    tf,          \* the task_files rows of the task, by TaskFile id
    files,       \* the files table, a sequence of rows; a row's id is its index
    ossObjects,  \* blob store: the set of [key, md5] objects it holds
    ossSessions, \* blob store: multipart sessions [key, state, parts]
    ossWrites,   \* blob store: how many objects were ever written
    nextKey,     \* the next fresh key of _generate_oss_key
    retried,     \* history: how often retry_file has reset each TaskFile
    ops,         \* requests served so far
    folders,     \* the committed rows of the folders table
    fpc,         \* per client: where its create_task request stands
    fcalls,      \* per client: the create_task requests it has sent
    fpath,       \* per create_task request: the target_folder_path it carries
    fidx,        \* per create_task request: the path segment it is at
    fparent,     \* per create_task request: parent_folder
    fpending,    \* per create_task request: rows flushed but not committed
    creq,        \* per client: its upload_chunk request in flight
    ureq,        \* per TaskFile: the upload_file request in flight for it
    foreign,     \* history: requests served for callers who do not own the task
    rows,        \* the committed upload_tasks and task_files rows of create_task requests
    tpending,    \* per create_task request: task and TaskFile rows flushed or added
    cleft,       \* per create_task request: the manifest files still to insert
    exported     \* the answers of the export-manifest requests since the last other request

uploadVars == <<task, tf, files, ossObjects, ossSessions, ossWrites, nextKey, retried>>
folderVars == <<folders, fpc, fcalls, fpath, fidx, fparent, fpending>>
reqVars == <<creq, ureq>>
createVars == <<rows, tpending, cleft>>
vars == <<uploadVars, ops, folderVars, reqVars, foreign, createVars, exported>>

\* --------------------------------------------------------------- utilities
RECURSIVE SumOver(_, _)
SumOver(S, w) ==
    IF S = {} THEN 0
    ELSE LET x == CHOOSE y \in S : TRUE IN w[x] + SumOver(S \ {x}, w)

Rows(fs) == DOMAIN fs

\* TaskFile.is_completed
IsCompleted(row) == row.status \in {COMPLETED, SKIPPED}

\* TaskFile.is_failed
IsFailed(row) == row.status = FAILED

\* A retry test that looks at the status only.
CanRetryAnyFailed(row) == IsFailed(row)

\* TaskFile.can_retry
CanRetry(row) == IsFailed(row) /\ row.retry_count < MaxRetries

\* A TaskFile inserted with the duplicate flag set and no duplicate source.
NewTaskFileFlagged(size, md5) ==
    [status |-> PENDING, file_size |-> size, md5 |-> md5,
     upload_progress |-> <<0, 1>>, oss_key |-> NoKey, oss_url |-> NoKey,
     chunk_info |-> << >>, retry_count |-> 0, is_duplicated |-> TRUE,
     duplicated_from |-> NoFile, file_id |-> NoFile, error_message |-> "NULL"]

\* A TaskFile as create_task inserts it.
NewTaskFile(size, md5) ==
    [status |-> PENDING, file_size |-> size, md5 |-> md5,
     upload_progress |-> <<0, 1>>, oss_key |-> NoKey, oss_url |-> NoKey,
     chunk_info |-> << >>, retry_count |-> 0, is_duplicated |-> FALSE,
     duplicated_from |-> NoFile, file_id |-> NoFile, error_message |-> "NULL"]

\* The database as one value: what a session reads and what it commits.
DB == [task |-> task[1], tf |-> tf, files |-> files]

\* The files table without the unique index on oss_key.
InsertFileNoUnique(fs, key, md5) == md5 # NoMd5

\* Column(String(512), nullable=False, unique=True): an INSERT of a files row
\* passes only with a key no row holds and a non-null md5.
InsertFileOk(fs, key, md5) ==
    /\ \A i \in Rows(fs) : fs[i].oss_key # key
    /\ md5 # NoMd5

FileRow(key, md5, size, drive) ==
    [oss_key |-> key, md5 |-> md5, size |-> size, drive_id |-> drive]

\* select(File).where(File.md5 == md5).limit(1): some matching row, or none.
MatchingRows(fs, md5) == {i \in Rows(fs) : fs[i].md5 = md5}

\* ---------------------------------------------------------- Task Aggregator
\* _update_task_progress: rescans the TaskFiles and writes the rollups into the
\* session; with a file in UPLOADING the assignment of TaskStatus.UPLOADING
\* raises NameError (the name is not imported) before the commit.
UpdateTaskProgress(db) ==
    LET done == {f \in DOMAIN db.tf : IsCompleted(db.tf[f])}
        size == [f \in DOMAIN db.tf |-> db.tf[f].file_size]
        t2 == [db.task EXCEPT !.uploaded_files = Cardinality(done),
                              !.uploaded_size = SumOver(done, size)]
    IN [db |-> [db EXCEPT !.task = t2],
        raised |-> \E f \in DOMAIN db.tf : db.tf[f].status = UPLOADING]

\* StorageManifestFile(oss_url: str): building an entry for a TaskFile whose
\* oss_url is NULL raises a validation error.
ManifestEntries(db) ==
    {f \in DOMAIN db.tf : db.tf[f].file_id # NoFile /\ db.tf[f].oss_key # NoKey}

ManifestRaises(db) == \E f \in ManifestEntries(db) : db.tf[f].oss_url = NoKey

\* TaskFile.local_path and TaskFile.virtual_path: create_task copies them from
\* the manifest it stores in the task row, and nothing writes them afterwards.
LocalPath(db, f) == db.task.upload_manifest.local_path[f]
VirtualPath(db, f) == db.task.upload_manifest.virtual_path[f]

\* A dict filled by `d[key(f)] = value(f)` for the entries in the order of
\* their ids: a later entry with the same key replaces the earlier one.
DictOf(E, key, value) ==
    [x \in {key[f] : f \in E} |->
        value[CHOOSE f \in E : key[f] = x /\ \A g \in E : key[g] = x => g <= f]]

ManifestMappings(db) ==
    LET E == ManifestEntries(db)
        lp == [f \in E |-> LocalPath(db, f)]
    IN [local_to_oss |-> DictOf(E, lp, [f \in E |-> db.tf[f].oss_key]),
        local_to_virtual |-> DictOf(E, lp, [f \in E |-> VirtualPath(db, f)]),
        oss_to_file_id |-> DictOf(E, [f \in E |-> db.tf[f].oss_key],
                                     [f \in E |-> db.tf[f].file_id])]

\* generate_storage_manifest: a projection of the task and its TaskFiles.
GenerateStorageManifest(db) ==
    [status |-> db.task.status,
     completed_at |-> db.task.completed_at,
     entries |-> ManifestEntries(db),
     mappings |-> ManifestMappings(db),
     uploaded_files |-> Cardinality({f \in DOMAIN db.tf : db.tf[f].status = COMPLETED}),
     skipped_files |-> Cardinality({f \in DOMAIN db.tf : db.tf[f].status = SKIPPED}),
     failed_files |-> Cardinality({f \in DOMAIN db.tf : db.tf[f].status = FAILED})]

\* check_and_complete_task
AllCompleted(db) == \A f \in DOMAIN db.tf : IsCompleted(db.tf[f])

CheckAndCompleteTask(db) ==
    IF AllCompleted(db) /\ db.task.status # COMPLETED
    THEN IF ManifestRaises(db)
         THEN [db |-> db, raised |-> TRUE]
         ELSE [db |-> [db EXCEPT !.task.status = COMPLETED,
                                 !.task.storage_manifest = <<GenerateStorageManifest(db)>>,
                                 !.task.completed_at = db.task.completed_at + 1],
               raised |-> FALSE]
    ELSE [db |-> db, raised |-> FALSE]

\* create_task
CreateTask(m) ==
    /\ task = << >>
    /\ task' = <<[status |-> PENDING, total_files |-> m.total_files,
                  total_size |-> m.total_size, uploaded_files |-> 0,
                  uploaded_size |-> 0, storage_manifest |-> << >>,
                  completed_at |-> NoTime, drive_id |-> TaskDrive,
                  upload_manifest |-> m]>>
    /\ tf' = [f \in FileIds |-> NewTaskFile(m.sizes[f], m.md5)]
    /\ UNCHANGED <<files, ossObjects, ossSessions, ossWrites, nextKey, retried>>

\* ------------------------------------------------------ Transfer Coordinator
\* An except-branch that fails the parent task together with the file.
FailFileAndTask(db, f, msg) ==
    [db EXCEPT !.tf[f].status = FAILED,
               !.tf[f].error_message = msg,
               !.tf[f].retry_count = @ + 1,
               !.task.status = FAILED]

\* The except-branch of upload_file / complete_multipart_upload.
FailFile(db, f, msg) ==
    [db EXCEPT !.tf[f].status = FAILED,
               !.tf[f].error_message = msg,
               !.tf[f].retry_count = @ + 1]

\* A flush that raises IntegrityError rolls the transaction back and leaves
\* the session unusable until rollback(): the except-branch that follows
\* cannot read retry_count nor commit, so the request ends with what was
\* committed before.
AfterFlushError(committed) == committed

\* _create_new_file / _create_file_reference: add a files row in the given
\* drive and flush.
CreateFile(db, f, key, md5, drive) ==
    IF InsertFileOk(db.files, key, md5)
    THEN [db |-> [db EXCEPT !.files = Append(@, FileRow(key, md5, db.tf[f].file_size, drive))],
          id |-> Len(db.files) + 1, raised |-> FALSE]
    ELSE [db |-> db, id |-> NoFile, raised |-> TRUE]

\* The tail of upload_file and complete_multipart_upload after the commit of
\* the resolved TaskFile: rescan, completion check, and the except-branch
\* when either raises (its commit also writes the rollups the rescan left
\* in the session).
AfterResolve(db, f, handlerOk) ==
    LET p == UpdateTaskProgress(db)
        c == CheckAndCompleteTask(p.db)
    IN IF p.raised
       THEN IF handlerOk THEN [db |-> FailFile(p.db, f, "error"), ok |-> FALSE]
                         ELSE [db |-> db, ok |-> FALSE]
       ELSE IF c.raised
            THEN IF handlerOk THEN [db |-> FailFile(p.db, f, "error"), ok |-> FALSE]
                              ELSE [db |-> p.db, ok |-> FALSE]
            ELSE [db |-> c.db, ok |-> TRUE]

\* upload_file: the database the request leaves, given the content hash and
\* whether the blob-store write succeeds.
UploadFileResult(db, f, md5, key, ossOk) ==
    LET db1 == [db EXCEPT !.tf[f].status = UPLOADING]
        hits == MatchingRows(db1.files, md5)
        existing == CHOOSE i \in hits : TRUE
        ref == CreateFile(db1, f, db1.files[existing].oss_key, md5,
                          db1.files[existing].drive_id)
        new == CreateFile(db1, f, key, md5, db1.task.drive_id)
    IN IF hits # {}
       THEN IF ref.raised
            THEN [db |-> AfterFlushError(db1), ok |-> FALSE, wrote |-> FALSE]
            ELSE LET db2 == [ref.db EXCEPT
                                !.tf[f].status = COMPLETED,
                                !.tf[f].is_duplicated = TRUE,
                                !.tf[f].duplicated_from = existing,
                                !.tf[f].file_id = ref.id,
                                !.tf[f].oss_key = db1.files[existing].oss_key,
                                !.tf[f].oss_url = db1.files[existing].oss_key,
                                !.tf[f].md5 = md5,
                                !.tf[f].upload_progress = <<100, 1>>]
                     r == AfterResolve(db2, f, TRUE)
                 IN [db |-> r.db, ok |-> r.ok, wrote |-> FALSE]
       ELSE IF ~ossOk
            THEN [db |-> FailFile(db1, f, "error"), ok |-> FALSE, wrote |-> FALSE]
            ELSE IF new.raised
                 THEN [db |-> AfterFlushError(db1), ok |-> FALSE, wrote |-> TRUE]
                 ELSE LET db2 == [new.db EXCEPT
                                     !.tf[f].status = COMPLETED,
                                     !.tf[f].file_id = new.id,
                                     !.tf[f].oss_key = key,
                                     !.tf[f].oss_url = key,
                                     !.tf[f].md5 = md5,
                                     !.tf[f].upload_progress = <<100, 1>>]
                          r == AfterResolve(db2, f, TRUE)
                      IN [db |-> r.db, ok |-> r.ok, wrote |-> TRUE]

UploadFile(f, md5, ossOk) ==
    /\ task # << >>
    /\ nextKey <= MaxKeys
    /\ Len(files) < MaxFileRows
    /\ tf[f].retry_count < MaxRetryCount
    /\ LET r == UploadFileResult(DB, f, md5, nextKey, ossOk)
       IN /\ task' = <<r.db.task>>
          /\ tf' = r.db.tf
          /\ files' = r.db.files
          /\ ossObjects' = IF r.wrote THEN ossObjects \cup {[key |-> nextKey, md5 |-> md5]}
                                      ELSE ossObjects
          /\ ossWrites' = IF r.wrote THEN ossWrites + 1 ELSE ossWrites
          /\ nextKey' = IF r.wrote THEN nextKey + 1 ELSE nextKey
    /\ UNCHANGED <<ossSessions, retried>>

\* ------------------------------------------------------- Blob Store Gateway
\* The multipart session the gateway finds for (key, upload id), if any.
\* A gateway that finds a session by its upload id alone.
OpenSessionAnyKey(key, id) ==
    {m \in ossSessions : m.id = id /\ m.state = "open"}

OpenSession(key, id) ==
    {m \in ossSessions : m.id = id /\ m.state = "open" /\ key = id}

SetSession(m, m2) == (ossSessions \ {m}) \cup {m2}

\* The tag the gateway returns for a part.
Etag(id, idx) == <<id, idx>>

\* uploadPart: records the part's tag under its index, replacing an older one.
PutPart(m, idx, etag) ==
    [m EXCEPT !.parts = {q \in @ : q[1] # idx} \cup {<<idx, etag>>}]

\* --------------------------------------------------------- chunked transfer
\* total_chunks = (file_size + CHUNK_SIZE - 1) // CHUNK_SIZE
TotalChunks(size) == (size + CHUNK_SIZE - 1) \div CHUNK_SIZE

\* init_multipart_upload
InitMultipartUpload(f, reqSize, ossOk) ==
    /\ task # << >>
    /\ nextKey <= MaxKeys
    /\ IF ossOk
       THEN /\ tf' = [tf EXCEPT ![f].status = UPLOADING,
                                ![f].oss_key = nextKey,
                                ![f].chunk_info = <<[upload_id |-> nextKey,
                                                     total_chunks |-> TotalChunks(reqSize),
                                                     uploaded_chunks |-> << >>,
                                                     chunk_etags |-> {}]>>]
            /\ ossSessions' = ossSessions \cup
                                {[id |-> nextKey, state |-> "open", parts |-> {}]}
            /\ nextKey' = nextKey + 1
       ELSE UNCHANGED <<tf, ossSessions, nextKey>>
    /\ UNCHANGED <<task, files, ossObjects, ossWrites, retried>>

\* chunk_info = Column(JSON): the handler mutates the loaded dict in place and
\* assigns the same object back, so the unit of work compares the value with
\* itself, finds no change and leaves the column out of the UPDATE.
PersistJson(loaded, mutated) == loaded

\* The chunk bookkeeping of upload_chunk, in the request's memory.
RecordChunk(ci, idx, etag) ==
    [ci EXCEPT !.uploaded_chunks = Append(@, idx),
               !.chunk_etags = {q \in @ : q[1] # idx} \cup {<<idx, etag>>}]

\* What upload_chunk returns as uploaded_chunks: the length of the list.
UploadedCount(ci) == Len(ci.uploaded_chunks)

\* upload_chunk
UploadChunk(f, idx, ossOk) ==
    /\ task # << >>
    /\ tf[f].chunk_info # << >>
    /\ UNCHANGED <<task, files, ossObjects, ossWrites, nextKey, retried>>
    /\ LET ci == tf[f].chunk_info[1]
           open == OpenSession(tf[f].oss_key, ci.upload_id)
           ci2 == RecordChunk(ci, idx, Etag(ci.upload_id, idx))
       IN IF ~ossOk \/ open = {}
          THEN UNCHANGED <<tf, ossSessions>>
          ELSE /\ ossSessions' = LET m == CHOOSE m \in open : TRUE
                                 IN SetSession(m, PutPart(m, idx, Etag(m.id, idx)))
               /\ IF ci.total_chunks = 0
                  THEN UNCHANGED tf
                  ELSE tf' = [tf EXCEPT
                                ![f].chunk_info = <<PersistJson(ci, ci2)>>,
                                ![f].upload_progress =
                                    <<UploadedCount(ci2) * 100, ci.total_chunks>>]

\* The except-branch of complete_multipart_upload: abort the session, then
\* mark the file FAILED and commit; when the abort itself raises, nothing of
\* the branch is committed.
AbortSession(key, id, abortOk) ==
    IF abortOk /\ OpenSession(key, id) # {}
    THEN LET m == CHOOSE m \in OpenSession(key, id) : TRUE
         IN SetSession(m, [m EXCEPT !.state = "aborted"])
    ELSE ossSessions

\* complete_multipart_upload: the database and blob store the request leaves.
\* fail names the step that raises: "complete" (assemble), "md5" (hash
\* retrieval), "delete" (removal of the duplicate object) or "none".
CompleteMultipartResult(db, f, md5, fail, abortOk) ==
    LET ci == db.tf[f].chunk_info[1]
        key == db.tf[f].oss_key
        open == OpenSession(key, ci.upload_id)
        m == CHOOSE m \in open : TRUE
        assembled == fail # "complete" /\ open # {} /\ m.parts # {}
        done == SetSession(m, [m EXCEPT !.state = "completed"])
        obj == [key |-> key, md5 |-> md5]
        hits == MatchingRows(db.files, md5)
        existing == CHOOSE i \in hits : TRUE
        ref == CreateFile(db, f, db.files[existing].oss_key, md5,
                          db.files[existing].drive_id)
        new == CreateFile(db, f, key, md5, db.task.drive_id)
        failed == IF abortOk THEN FailFile(db, f, "error") ELSE db
    IN IF ~assembled
       THEN [db |-> failed, sessions |-> AbortSession(key, ci.upload_id, abortOk),
             objects |-> ossObjects, wrote |-> FALSE]
       ELSE IF fail = "md5"
       THEN [db |-> failed, sessions |-> done,
             objects |-> ossObjects \cup {obj}, wrote |-> TRUE]
       ELSE IF hits # {}
       THEN IF fail = "delete"
            THEN [db |-> failed, sessions |-> done,
                  objects |-> ossObjects \cup {obj}, wrote |-> TRUE]
            ELSE IF ref.raised
            THEN [db |-> AfterFlushError(db), sessions |-> done,
                  objects |-> {o \in ossObjects : o.key # key}, wrote |-> TRUE]
            ELSE LET db2 == [ref.db EXCEPT
                                !.tf[f].is_duplicated = TRUE,
                                !.tf[f].duplicated_from = existing,
                                !.tf[f].oss_key = db.files[existing].oss_key,
                                !.tf[f].oss_url = db.files[existing].oss_key,
                                !.tf[f].status = COMPLETED,
                                !.tf[f].file_id = ref.id,
                                !.tf[f].md5 = md5,
                                !.tf[f].upload_progress = <<100, 1>>,
                                !.tf[f].chunk_info = << >>]
                 IN [db |-> AfterResolve(db2, f, abortOk).db, sessions |-> done,
                     objects |-> {o \in ossObjects : o.key # key}, wrote |-> TRUE]
       ELSE IF new.raised
       THEN [db |-> AfterFlushError(db), sessions |-> done,
             objects |-> ossObjects \cup {obj}, wrote |-> TRUE]
       ELSE LET db2 == [new.db EXCEPT
                           !.tf[f].status = COMPLETED,
                           !.tf[f].file_id = new.id,
                           !.tf[f].md5 = md5,
                           !.tf[f].upload_progress = <<100, 1>>,
                           !.tf[f].chunk_info = << >>]
            IN [db |-> AfterResolve(db2, f, abortOk).db, sessions |-> done,
                objects |-> ossObjects \cup {obj}, wrote |-> TRUE]

CompleteMultipartUpload(f, md5, fail, abortOk) ==
    /\ task # << >>
    /\ tf[f].chunk_info # << >>
    /\ Len(files) < MaxFileRows
    /\ tf[f].retry_count < MaxRetryCount
    /\ LET r == CompleteMultipartResult(DB, f, md5, fail, abortOk)
       IN /\ task' = <<r.db.task>>
          /\ tf' = r.db.tf
          /\ files' = r.db.files
          /\ ossSessions' = r.sessions
          /\ ossObjects' = r.objects
          /\ ossWrites' = IF r.wrote THEN ossWrites + 1 ELSE ossWrites
    /\ UNCHANGED <<nextKey, retried>>

\* abort_multipart_upload
AbortMultipartUpload(f, abortOk) ==
    /\ task # << >>
    /\ tf[f].chunk_info # << >>
    /\ IF abortOk
       THEN /\ ossSessions' = AbortSession(tf[f].oss_key, tf[f].chunk_info[1].upload_id, TRUE)
            /\ tf' = [tf EXCEPT ![f].status = FAILED,
                                ![f].error_message = "aborted",
                                ![f].chunk_info = << >>]
       ELSE UNCHANGED <<tf, ossSessions>>
    /\ UNCHANGED <<task, files, ossObjects, ossWrites, nextKey, retried>>

\* The multipart handlers, and what each answers for a TaskFile whose
\* chunk_info is empty: upload_chunk and complete_multipart_upload raise
\* HTTP 400 before touching anything; abort_multipart_upload skips its body
\* and returns, which the endpoint answers with 204.
MultipartOps == {"upload_chunk", "complete_multipart_upload", "abort_multipart_upload"}

MultipartReply(op, row) ==
    IF row.chunk_info # << >> THEN "served"
    ELSE IF op = "abort_multipart_upload" THEN "204" ELSE "400"

\* retry_file: a TaskFile that cannot be retried makes the request raise
\* before anything is written.
RetryFile(f) ==
    /\ task # << >>
    /\ IF CanRetry(tf[f])
       THEN /\ tf' = [tf EXCEPT ![f].status = PENDING,
                               ![f].error_message = "NULL",
                               ![f].upload_progress = <<0, 1>>]
            /\ retried' = [retried EXCEPT ![f] = @ + 1]
       ELSE UNCHANGED <<tf, retried>>
    /\ UNCHANGED <<task, files, ossObjects, ossSessions, ossWrites, nextKey>>

\* mark_file_completed: md5 = NoMd5 and size = 0 stand for the optional
\* arguments left out.
MarkFileCompletedResult(db, f, key, md5, size) ==
    LET row1 == [db.tf[f] EXCEPT
                    !.status = COMPLETED,
                    !.oss_key = key,
                    !.oss_url = key,
                    !.upload_progress = <<100, 1>>,
                    !.md5 = IF md5 # NoMd5 THEN md5 ELSE @,
                    !.file_size = IF size # 0 THEN size ELSE @]
        db1 == [db EXCEPT !.tf[f] = row1]
        new == CreateFile(db1, f, key, row1.md5, db1.task.drive_id)
        db2 == [new.db EXCEPT
                   !.tf[f].file_id = new.id,
                   !.task.uploaded_files = @ + 1,
                   !.task.uploaded_size = @ + row1.file_size,
                   !.task.status = IF @ = PENDING THEN UPLOADING ELSE @]
    IN IF new.raised THEN db ELSE CheckAndCompleteTask(db2).db

MarkFileCompleted(f, key, md5, size) ==
    /\ task # << >>
    /\ Len(files) < MaxFileRows
    /\ LET db == MarkFileCompletedResult(DB, f, key, md5, size)
       IN /\ task' = <<db.task>>
          /\ tf' = db.tf
          /\ files' = db.files
    /\ UNCHANGED <<ossObjects, ossSessions, ossWrites, nextKey, retried>>

\* handle_upload_complete_callback
OssCallbackResult(db, f, key, md5, size, drive) ==
    LET fmd5 == IF md5 # NoMd5 THEN md5 ELSE db.tf[f].md5
        ok == InsertFileOk(db.files, key, fmd5)
        db1 == [db EXCEPT
                   !.files = Append(@, FileRow(key, fmd5, size, drive)),
                   !.tf[f].status = COMPLETED,
                   !.tf[f].file_id = Len(db.files) + 1,
                   !.tf[f].oss_key = key,
                   !.tf[f].oss_url = key,
                   !.tf[f].upload_progress = <<100, 1>>,
                   !.tf[f].md5 = IF md5 # NoMd5 THEN md5 ELSE @,
                   !.task.uploaded_files = @ + 1,
                   !.task.uploaded_size = @ + size]
        db2 == IF db1.task.uploaded_files >= db1.task.total_files
               THEN [db1 EXCEPT !.task.status = COMPLETED,
                                !.task.completed_at = @ + 1]
               ELSE [db1 EXCEPT !.task.status = UPLOADING]
    IN IF db.tf[f].status = COMPLETED /\ db.tf[f].file_id # NoFile
       THEN db
       ELSE IF ok THEN db2 ELSE db

OssCallback(f, key, md5, size, drive) ==
    /\ task # << >>
    /\ Len(files) < MaxFileRows
    /\ LET db == OssCallbackResult(DB, f, key, md5, size, drive)
       IN /\ task' = <<db.task>>
          /\ tf' = db.tf
          /\ files' = db.files
    /\ UNCHANGED <<ossObjects, ossSessions, ossWrites, nextKey, retried>>

\* update_task_status / cancel_task
UpdateTaskStatus(new_status) ==
    /\ task # << >>
    /\ task' = <<[task[1] EXCEPT
                    !.status = new_status,
                    !.completed_at = IF new_status = COMPLETED THEN @ + 1 ELSE @]>>
    /\ UNCHANGED <<tf, files, ossObjects, ossSessions, ossWrites, nextKey, retried>>

CancelTask == UpdateTaskStatus(CANCELLED)

\* check_files_exist: the loop over the submitted items, in order; a flush
\* that raises ends the request with nothing committed.
RECURSIVE CheckLoop(_, _, _)
CheckLoop(db, items, todo) ==
    IF todo = {}
    THEN [db |-> db, raised |-> FALSE]
    ELSE LET f == CHOOSE x \in todo : \A y \in todo : x <= y
             hits == MatchingRows(db.files, items[f])
             existing == CHOOSE i \in hits : TRUE
             ref == CreateFile(db, f, db.files[existing].oss_key, items[f],
                               db.task.drive_id)
             db2 == [ref.db EXCEPT
                        !.tf[f].status = SKIPPED,
                        !.tf[f].is_duplicated = TRUE,
                        !.tf[f].duplicated_from = existing,
                        !.tf[f].oss_key = db.files[existing].oss_key,
                        !.tf[f].oss_url = db.files[existing].oss_key,
                        !.tf[f].file_id = ref.id,
                        !.tf[f].upload_progress = <<100, 1>>]
         IN IF hits = {}
            THEN CheckLoop(db, items, todo \ {f})
            ELSE IF ref.raised
                 THEN [db |-> db, raised |-> TRUE]
                 ELSE CheckLoop(db2, items, todo \ {f})

CheckFilesExistResult(db, items) ==
    LET loop == CheckLoop(db, items, DOMAIN items)
        p == UpdateTaskProgress(loop.db)
    IN IF loop.raised THEN db
       ELSE IF p.raised THEN loop.db ELSE p.db

\* What check_files_exist answers: a server error when the loop or the progress
\* update raises, else the counts over the items it found a File for, with
\* storage_saved the sum of their sizes.
CheckFilesExistReply(db, items) ==
    LET loop == CheckLoop(db, items, DOMAIN items)
        found == {f \in DOMAIN items : MatchingRows(db.files, items[f]) # {}}
    IN IF loop.raised \/ UpdateTaskProgress(loop.db).raised
       THEN [code |-> 500, new_files_count |-> 0, storage_saved |-> 0]
       ELSE [code |-> 200,
             new_files_count |-> Cardinality(DOMAIN items) - Cardinality(found),
             storage_saved |-> SumOver(found, [f \in DOMAIN items |-> db.tf[f].file_size])]

CheckFilesExist(items) ==
    /\ task # << >>
    /\ Len(files) < MaxFileRows
    /\ LET db == CheckFilesExistResult(DB, items)
       IN /\ task' = <<db.task>>
          /\ tf' = db.tf
          /\ files' = db.files
    /\ UNCHANGED <<ossObjects, ossSessions, ossWrites, nextKey, retried>>

CheckItems == UNION {[S -> Hashes] : S \in (SUBSET FileIds) \ {{}}}

\* --------------------------------------------------------- Path Materializer
\* create_task requests that run concurrently, each in its own session and
\* transaction; a request sees the committed rows and the rows it flushed.
Callers == 1..NCallers
FolderPaths == {<<"a">>, <<"a", "b">>}
NoFolder == << >>

Visible(c) == folders \cup fpending[c]

\* A lookup that never sees a row.
FoldersAtNone(c, path) == {}

\* select(Folder).where(drive_id, path) as the request sees the table.
FoldersAt(c, path) == {r \in Visible(c) : r.path = path}

\* Folder(...) with a fresh primary key.
NewFolder(c, path, parent) ==
    [id |-> <<c, fcalls[c], Len(path)>>, path |-> path, level |-> Len(path) - 1,
     parent_id |-> parent]

\* The request arrives with a manifest whose file targets the given path.
FolderBegin(c, path) ==
    /\ fpc[c] \in {"idle", "done", "failed"}
    /\ fcalls[c] < MaxCalls
    /\ fcalls' = [fcalls EXCEPT ![c] = @ + 1]
    /\ fpc' = [fpc EXCEPT ![c] = "lookup"]
    /\ fpath' = [fpath EXCEPT ![c] = path]
    /\ fparent' = [fparent EXCEPT ![c] = NoFolder]
    /\ UNCHANGED <<folders, fidx, fpending>>

\* _ensure_folder_exists, the query for the whole path: scalar_one_or_none
\* raises when more than one row matches.
FolderLookup(c) ==
    /\ fpc[c] = "lookup"
    /\ LET found == FoldersAt(c, fpath[c])
       IN fpc' = [fpc EXCEPT ![c] = IF Cardinality(found) > 1 THEN "failed"
                                    ELSE IF found # {} THEN "commit"
                                    ELSE "walk"]
    /\ fidx' = [fidx EXCEPT ![c] = 1]
    /\ fparent' = [fparent EXCEPT ![c] =
                      IF Cardinality(FoldersAt(c, fpath[c])) = 1
                      THEN <<(CHOOSE r \in FoldersAt(c, fpath[c]) : TRUE).id>>
                      ELSE @]
    /\ UNCHANGED <<folders, fcalls, fpath, fpending>>

\* _ensure_folder_exists, one turn of the loop over the path segments: query
\* the prefix, add and flush a row when none is seen.
FolderWalk(c) ==
    /\ fpc[c] = "walk"
    /\ LET prefix == SubSeq(fpath[c], 1, fidx[c])
           found == FoldersAt(c, prefix)
           row == IF found = {} THEN NewFolder(c, prefix, fparent[c])
                                ELSE CHOOSE r \in found : TRUE
       IN IF Cardinality(found) > 1
          THEN /\ fpc' = [fpc EXCEPT ![c] = "failed"]
               /\ fpending' = [fpending EXCEPT ![c] = {}]
               /\ UNCHANGED <<fidx, fparent>>
          ELSE /\ fpending' = [fpending EXCEPT ![c] = (@ \cup {row}) \ folders]
               /\ fparent' = [fparent EXCEPT ![c] = <<row.id>>]
               /\ fidx' = [fidx EXCEPT ![c] = @ + 1]
               /\ fpc' = [fpc EXCEPT ![c] = IF fidx[c] = Len(fpath[c])
                                            THEN "commit" ELSE "walk"]
    /\ UNCHANGED <<folders, fcalls, fpath>>

\* The root path, "" or "/".
RootPath == << >>

\* No create_task request is in flight.
NoneInFlight == \A d \in Callers : fpc[d] \in {"idle", "done", "failed"}

\* A request whose file targets the root path: _ensure_folder_exists returns
\* None at once.
EnsureRoot(c) ==
    /\ fpc[c] \in {"idle", "done", "failed"}
    /\ fcalls[c] < MaxCalls
    /\ fcalls' = [fcalls EXCEPT ![c] = @ + 1]
    /\ fpc' = [fpc EXCEPT ![c] = "commit"]
    /\ fpath' = [fpath EXCEPT ![c] = RootPath]
    /\ fparent' = [fparent EXCEPT ![c] = NoFolder]
    /\ UNCHANGED <<folders, fidx, fpending>>

\* create_task: await self.db.commit()
FolderCommit(c) ==
    /\ fpc[c] = "commit"
    /\ folders' = folders \cup fpending[c]
    /\ fpending' = [fpending EXCEPT ![c] = {}]
    /\ fpc' = [fpc EXCEPT ![c] = "done"]
    /\ UNCHANGED <<fcalls, fpath, fidx, fparent>>

\* The authenticated callers: the user who created the task, and another user
\* who owns a task of their own in another drive.
TaskOwner == "owner"
Users == {"owner", "other"}

\* ------------------------------------------------ create_task, whole request
\* The drives table: the caller's personal drive, another user's personal
\* drive, and the drive of a team the caller is not a member of.
DriveTable ==
    {[id |-> "d1", user_id |-> "owner", is_team_drive |-> FALSE, members |-> {}],
     [id |-> "d2", user_id |-> "other", is_team_drive |-> FALSE, members |-> {}],
     [id |-> "team", user_id |-> "NULL", is_team_drive |-> TRUE, members |-> {"other"}]}

\* The drive ids a manifest may carry; "d0" is the id of no drive.
RequestDrives == {"d1", "d2", "team", "d0"}

\* DriveService.get_drive: a personal drive for its user, a team drive for the
\* members of its team.
GetDrive(user, drive) ==
    {d \in DriveTable : /\ d.id = drive
                        /\ IF d.is_team_drive THEN user \in d.members
                                              ELSE d.user_id = user}

\* The drive query create_task makes for itself.
CreateTaskDrive(user, drive) ==
    {d \in DriveTable : d.id = drive /\ (d.user_id = user \/ d.is_team_drive)}

\* How many files a manifest declares: none, or NFiles.
DeclaredCounts == {0, NFiles}

\* UploadTask(...) of create_task, with the manifest it stores.
NewTaskRow(id, drive, n) ==
    [kind |-> "task", id |-> id, drive_id |-> drive, declared |-> n,
     status |-> PENDING, storage_manifest |-> << >>, completed_at |-> NoTime]

NewTaskFileRow(task_id, n) ==
    [kind |-> "task_file", id |-> <<task_id, n>>, task_id |-> task_id,
     row |-> NewTaskFile(0, "h1")]

PendingTask(c) == CHOOSE r \in tpending[c] : r.kind = "task"

\* The folders of the drive the request writes to, as the request sees them.
DriveFoldersAt(c, path) ==
    {r \in FoldersAt(c, path) : r.drive_id = PendingTask(c).drive_id}

NewDriveFolder(c, path, parent) ==
    NewFolder(c, path, parent) @@ [drive_id |-> PendingTask(c).drive_id]

\* get_db: an exception leaving the handler rolls the transaction back.
Rollback(c) ==
    /\ fpc' = [fpc EXCEPT ![c] = "failed"]
    /\ fpending' = [fpending EXCEPT ![c] = {}]
    /\ tpending' = [tpending EXCEPT ![c] = {}]

\* create_task, the loop body after _ensure_folder_exists has returned:
\* the TaskFile of the current manifest file is added.
AddTaskFile(c) ==
    /\ tpending' = [tpending EXCEPT ![c] = @ \cup {NewTaskFileRow(PendingTask(c).id, cleft[c])}]
    /\ cleft' = [cleft EXCEPT ![c] = @ - 1]
    /\ fpc' = [fpc EXCEPT ![c] = IF cleft[c] = 1 THEN "commit" ELSE "lookup"]

\* create_task up to the flush of the task row: the drive query, 404 when it
\* finds nothing. The manifest declares n files, all targeting one path.
CreateBegin(c, drive, path, n) ==
    /\ fpc[c] \in {"idle", "done", "failed", "notfound"}
    /\ fcalls[c] < MaxCalls
    /\ fcalls' = [fcalls EXCEPT ![c] = @ + 1]
    /\ IF CreateTaskDrive(TaskOwner, drive) = {}
       THEN /\ fpc' = [fpc EXCEPT ![c] = "notfound"]
            /\ UNCHANGED <<fpath, fparent, tpending, cleft>>
       ELSE /\ fpc' = [fpc EXCEPT ![c] = IF n = 0 THEN "commit" ELSE "lookup"]
            /\ fpath' = [fpath EXCEPT ![c] = path]
            /\ fparent' = [fparent EXCEPT ![c] = NoFolder]
            /\ tpending' = [tpending EXCEPT ![c] = {NewTaskRow(<<c, fcalls[c] + 1>>, drive, n)}]
            /\ cleft' = [cleft EXCEPT ![c] = n]
    /\ UNCHANGED <<folders, fidx, fpending, rows>>

\* _ensure_folder_exists for the current manifest file, the query for the
\* whole path.
CreateLookup(c) ==
    /\ fpc[c] = "lookup"
    /\ LET found == DriveFoldersAt(c, fpath[c])
       IN IF Cardinality(found) > 1
          THEN Rollback(c) /\ UNCHANGED <<fidx, fparent, cleft>>
          ELSE IF found # {}
          THEN AddTaskFile(c) /\ UNCHANGED <<fidx, fparent, fpending>>
          ELSE /\ fpc' = [fpc EXCEPT ![c] = "walk"]
               /\ fidx' = [fidx EXCEPT ![c] = 1]
               /\ fparent' = [fparent EXCEPT ![c] = NoFolder]
               /\ UNCHANGED <<fpending, tpending, cleft>>
    /\ UNCHANGED <<folders, fcalls, fpath, rows>>

\* _ensure_folder_exists, one turn of the loop over the path segments.
CreateWalk(c) ==
    /\ fpc[c] = "walk"
    /\ LET prefix == SubSeq(fpath[c], 1, fidx[c])
           found == DriveFoldersAt(c, prefix)
           row == IF found = {} THEN NewDriveFolder(c, prefix, fparent[c])
                                ELSE CHOOSE r \in found : TRUE
       IN IF Cardinality(found) > 1
          THEN Rollback(c) /\ UNCHANGED <<fidx, fparent, cleft>>
          ELSE /\ fpending' = [fpending EXCEPT ![c] = (@ \cup {row}) \ folders]
               /\ fparent' = [fparent EXCEPT ![c] = <<row.id>>]
               /\ fidx' = [fidx EXCEPT ![c] = @ + 1]
               /\ IF fidx[c] = Len(fpath[c])
                  THEN AddTaskFile(c)
                  ELSE UNCHANGED <<fpc, tpending, cleft>>
    /\ UNCHANGED <<folders, fcalls, fpath, rows>>

\* create_task: await self.db.commit()
CreateCommit(c) ==
    /\ fpc[c] = "commit"
    /\ folders' = folders \cup fpending[c]
    /\ rows' = rows \cup tpending[c]
    /\ fpending' = [fpending EXCEPT ![c] = {}]
    /\ tpending' = [tpending EXCEPT ![c] = {}]
    /\ fpc' = [fpc EXCEPT ![c] = "done"]
    /\ UNCHANGED <<fcalls, fpath, fidx, fparent, cleft>>

\* check_and_complete_task called for a committed task.
TaskRows == {r \in rows : r.kind = "task"}
TaskFilesOf(t) == {r \in rows : r.kind = "task_file" /\ r.task_id = t.id}

TaskDB(t) ==
    [task |-> t,
     tf |-> [i \in {r.id[2] : r \in TaskFilesOf(t)} |->
                (CHOOSE r \in TaskFilesOf(t) : r.id[2] = i).row],
     files |-> << >>]

CompletionCheck(t) ==
    /\ t \in TaskRows
    /\ rows' = (rows \ {t}) \cup {CheckAndCompleteTask(TaskDB(t)).db.task}
    /\ UNCHANGED <<folderVars, tpending, cleft>>

\* ------------------------------------------- concurrent upload_chunk requests
\* upload_chunk as the event loop runs it: the handler yields at each await,
\* so requests interleave between the load of the TaskFile, the part upload
\* and the commit. Each request works on the chunk_info its session loaded.
NoChunkRequest == [pc |-> "idle", f |-> 1, idx |-> 1, loaded |-> << >>, key |-> NoKey]

\* _get_task_file and the chunk_info check.
ChunkLoad(c, f, idx) ==
    /\ task # << >>
    /\ creq[c].pc \in {"idle", "done", "failed"}
    /\ tf[f].chunk_info # << >>
    /\ creq' = [creq EXCEPT ![c] = [pc |-> "loaded", f |-> f, idx |-> idx,
                                    loaded |-> tf[f].chunk_info,
                                    key |-> tf[f].oss_key]]
    /\ UNCHANGED <<uploadVars, ops, folderVars, ureq, foreign, createVars, exported>>

\* await self.oss_service.upload_part(...)
ChunkPut(c, ossOk) ==
    /\ creq[c].pc = "loaded"
    /\ LET r == creq[c]
           open == OpenSession(r.key, r.loaded[1].upload_id)
       IN IF ~ossOk \/ open = {}
          THEN /\ creq' = [creq EXCEPT ![c].pc = "failed"]
               /\ UNCHANGED ossSessions
          ELSE /\ creq' = [creq EXCEPT ![c].pc = "put"]
               /\ ossSessions' = LET m == CHOOSE m \in open : TRUE
                                 IN SetSession(m, PutPart(m, r.idx, Etag(m.id, r.idx)))
    /\ UNCHANGED <<task, tf, files, ossObjects, ossWrites, nextKey, retried,
                   ops, folderVars, ureq, foreign, createVars, exported>>

\* The bookkeeping on the loaded dict and the commit: the UPDATE carries
\* upload_progress, and chunk_info only when the unit of work sees it changed.
ChunkCommit(c) ==
    /\ creq[c].pc = "put"
    /\ LET r == creq[c]
           ci == r.loaded[1]
           ci2 == RecordChunk(ci, r.idx, Etag(ci.upload_id, r.idx))
       IN IF ci.total_chunks = 0
          THEN /\ creq' = [creq EXCEPT ![c].pc = "failed"]
               /\ UNCHANGED tf
          ELSE /\ creq' = [creq EXCEPT ![c].pc = "done"]
               /\ tf' = [tf EXCEPT
                            ![r.f].chunk_info =
                                IF PersistJson(ci, ci2) = ci THEN @ ELSE <<ci2>>,
                            ![r.f].upload_progress =
                                <<UploadedCount(ci2) * 100, ci.total_chunks>>]
    /\ UNCHANGED <<task, files, ossObjects, ossSessions, ossWrites, nextKey,
                   retried, ops, folderVars, ureq, foreign, createVars, exported>>

\* ------------------------------------------- concurrent upload_file requests
\* upload_file as the event loop runs it, one request per TaskFile. A request's
\* session keeps every row it has loaded (expire_on_commit=False): seen holds
\* the TaskFiles as its rescan read them, stask the task row as it loaded it,
\* and its commits write the columns its own assignments changed.
NoUploadRequest == [pc |-> "idle", md5 |-> NoMd5, seen |-> << >>, stask |-> << >>]

\* The columns of the task row a commit writes: those whose value in the
\* session differs from the value the session had loaded.
WriteTask(row, loaded, session) ==
    [col \in DOMAIN row |-> IF session[col] # loaded[col] THEN session[col] ELSE row[col]]

\* _get_task_file, status = UPLOADING, commit.
UpBegin(f, md5) ==
    /\ task # << >>
    /\ ureq[f].pc = "idle"
    /\ tf' = [tf EXCEPT ![f].status = UPLOADING]
    /\ ureq' = [ureq EXCEPT ![f] = [pc |-> "begun", md5 |-> md5,
                                    seen |-> << >>, stask |-> task]]
    /\ UNCHANGED <<task, files, ossObjects, ossSessions, ossWrites, nextKey,
                   retried, ops, folderVars, creq, foreign, createVars, exported>>

\* The try-block up to the commit of the resolved TaskFile.
UpResolve(f, ossOk) ==
    /\ ureq[f].pc = "begun"
    /\ nextKey <= MaxKeys
    /\ Len(files) < MaxFileRows
    /\ LET md5 == ureq[f].md5
           hits == MatchingRows(files, md5)
           existing == CHOOSE i \in hits : TRUE
           ref == CreateFile(DB, f, files[existing].oss_key, md5, files[existing].drive_id)
           new == CreateFile(DB, f, nextKey, md5, task[1].drive_id)
           wrote == hits = {} /\ ossOk
       IN /\ IF hits # {}
             THEN IF ref.raised
                  THEN /\ UNCHANGED <<tf, files>>
                       /\ ureq' = [ureq EXCEPT ![f].pc = "failed"]
                  ELSE /\ files' = ref.db.files
                       /\ tf' = [tf EXCEPT
                                    ![f].status = COMPLETED,
                                    ![f].is_duplicated = TRUE,
                                    ![f].duplicated_from = existing,
                                    ![f].file_id = ref.id,
                                    ![f].oss_key = files[existing].oss_key,
                                    ![f].oss_url = files[existing].oss_key,
                                    ![f].md5 = md5,
                                    ![f].upload_progress = <<100, 1>>]
                       /\ ureq' = [ureq EXCEPT ![f].pc = "resolved"]
             ELSE IF ~ossOk
                  THEN /\ tf' = FailFile(DB, f, "error").tf
                       /\ UNCHANGED files
                       /\ ureq' = [ureq EXCEPT ![f].pc = "failed"]
                  ELSE IF new.raised
                       THEN /\ UNCHANGED <<tf, files>>
                            /\ ureq' = [ureq EXCEPT ![f].pc = "failed"]
                       ELSE /\ files' = new.db.files
                            /\ tf' = [tf EXCEPT
                                         ![f].status = COMPLETED,
                                         ![f].file_id = new.id,
                                         ![f].oss_key = nextKey,
                                         ![f].oss_url = nextKey,
                                         ![f].md5 = md5,
                                         ![f].upload_progress = <<100, 1>>]
                            /\ ureq' = [ureq EXCEPT ![f].pc = "resolved"]
          /\ ossObjects' = IF wrote THEN ossObjects \cup {[key |-> nextKey, md5 |-> md5]}
                                    ELSE ossObjects
          /\ ossWrites' = IF wrote THEN ossWrites + 1 ELSE ossWrites
          /\ nextKey' = IF wrote THEN nextKey + 1 ELSE nextKey
    /\ UNCHANGED <<task, ossSessions, retried, ops, folderVars, creq, foreign, createVars, exported>>

\* _update_task_progress: select(TaskFile).where(task_id).
UpRescan(f) ==
    /\ ureq[f].pc = "resolved"
    /\ ureq' = [ureq EXCEPT ![f].pc = "scanned", ![f].seen = <<tf>>]
    /\ UNCHANGED <<uploadVars, ops, folderVars, creq, foreign, createVars, exported>>

\* _update_task_progress: the rollups computed from the rows read, and the
\* commit; or, when TaskStatus.UPLOADING raises NameError, the except-branch
\* of upload_file and its commit.
UpWrite(f) ==
    /\ ureq[f].pc = "scanned"
    /\ LET r == ureq[f]
           p == UpdateTaskProgress([task |-> r.stask[1], tf |-> r.seen[1], files |-> files])
           written == WriteTask(task[1], r.stask[1], p.db.task)
       IN /\ task' = <<written>>
          /\ IF p.raised
             THEN /\ tf' = FailFile(DB, f, "error").tf
                  /\ ureq' = [ureq EXCEPT ![f].pc = "failed", ![f].stask = <<p.db.task>>]
             ELSE /\ UNCHANGED tf
                  /\ ureq' = [ureq EXCEPT ![f].pc = "written", ![f].stask = <<p.db.task>>]
    /\ UNCHANGED <<files, ossObjects, ossSessions, ossWrites, nextKey, retried,
                   ops, folderVars, creq, foreign, createVars, exported>>

\* check_and_complete_task on the rows the session holds, and its commit; a
\* manifest that cannot be built sends the request to the except-branch.
UpCheck(f) ==
    /\ ureq[f].pc = "written"
    /\ LET r == ureq[f]
           c == CheckAndCompleteTask([task |-> r.stask[1], tf |-> r.seen[1], files |-> files])
       IN IF c.raised
          THEN /\ tf' = FailFile(DB, f, "error").tf
               /\ UNCHANGED task
               /\ ureq' = [ureq EXCEPT ![f].pc = "failed"]
          ELSE /\ task' = <<WriteTask(task[1], r.stask[1], c.db.task)>>
               /\ UNCHANGED tf
               /\ ureq' = [ureq EXCEPT ![f].pc = "done", ![f].stask = <<c.db.task>>]
    /\ UNCHANGED <<files, ossObjects, ossSessions, ossWrites, nextKey, retried,
                   ops, folderVars, creq, foreign, createVars, exported>>

Init ==
    /\ task = << >>
    /\ tf = << >>
    /\ files = << >>
    /\ ossObjects = {}
    /\ ossSessions = {}
    /\ ossWrites = 0
    /\ nextKey = 1
    /\ retried = [f \in FileIds |-> 0]
    /\ ops = 0
    /\ folders = {}
    /\ fpc = [c \in Callers |-> "idle"]
    /\ fcalls = [c \in Callers |-> 0]
    /\ fpath = [c \in Callers |-> << >>]
    /\ fidx = [c \in Callers |-> 1]
    /\ fparent = [c \in Callers |-> NoFolder]
    /\ fpending = [c \in Callers |-> {}]
    /\ creq = [c \in Callers |-> NoChunkRequest]
    /\ ureq = [f \in FileIds |-> NoUploadRequest]
    /\ foreign = 0
    /\ rows = {}
    /\ tpending = [c \in Callers |-> {}]
    /\ cleft = [c \in Callers |-> 0]
    /\ exported = << >>

\* ------------------------------------------------------------- ownership
\* get_task(task_id, user_id): the task row, for its owner only. Every
\* task-level operation starts with it, and every file-level operation with
\* _get_task_file, which calls it; a caller it does not find the task for gets
\* 404 / 403 before the handler has written anything.
AsUser(user, Handler) ==
    IF user = TaskOwner
    THEN Handler /\ UNCHANGED foreign
    ELSE /\ task # << >>
         /\ foreign < MaxForeign
         /\ foreign' = foreign + 1
         /\ UNCHANGED uploadVars

\* check_files_exist called by the other user for their own task, with items
\* that name TaskFiles of this task: the ownership check passes, and the loop
\* selects each TaskFile by its id alone. The rescan that follows is of the
\* caller's task.
ForeignCheckFilesExist(items) ==
    /\ task # << >>
    /\ Len(files) < MaxFileRows
    /\ foreign < MaxForeign
    /\ foreign' = foreign + 1
    /\ LET loop == CheckLoop([DB EXCEPT !.task.drive_id = "d2"], items, DOMAIN items)
       IN IF loop.raised
          THEN UNCHANGED <<tf, files>>
          ELSE tf' = loop.db.tf /\ files' = loop.db.files
    /\ UNCHANGED <<task, ossObjects, ossSessions, ossWrites, nextKey, retried>>

\* --------------------------------------------------------- export-manifest
\* What generate_storage_manifest hands back: the manifest, or nothing when
\* building it raises.
ExportResult(db) == IF ManifestRaises(db) THEN << >> ELSE <<GenerateStorageManifest(db)>>

\* export_storage_manifest as a caller sees it: the endpoint passes task_id on
\* without looking at current_user; 200 with the manifest, or a server error
\* when building it raises.
ExportReplyTo(user, db) ==
    [code |-> IF ExportResult(db) = << >> THEN 500 ELSE 200, body |-> ExportResult(db)]

\* An export that also stores what it generated in the task row.
ExportPersisting ==
    /\ task # << >>
    /\ Len(exported) < MaxExports
    /\ exported' = Append(exported, ExportResult(DB))
    /\ task' = <<[task[1] EXCEPT !.storage_manifest = ExportResult(DB)]>>
    /\ UNCHANGED <<tf, files, ossObjects, ossSessions, ossWrites, nextKey, retried>>

\* export_storage_manifest: generate_storage_manifest for the task, returned
\* to the caller; get_db commits a session with nothing to write.
ExportStorageManifest ==
    /\ task # << >>
    /\ Len(exported) < MaxExports
    /\ exported' = Append(exported, ExportResult(DB))
    /\ UNCHANGED uploadVars

\* A request other than an export is served.
ServeOther ==
    /\ ops < MaxOps /\ ops' = ops + 1
    /\ exported' = << >>
    /\ UNCHANGED <<folderVars, reqVars, foreign, createVars>>

\* One more request is served; Spec explores behaviours of up to MaxOps requests.
Serve == ops < MaxOps /\ ops' = ops + 1 /\ UNCHANGED <<folderVars, reqVars, foreign, createVars, exported>>

Next ==
    \/ Serve /\ \E m \in Manifests : CreateTask(m)
    \/ Serve /\ \E items \in CheckItems : CheckFilesExist(items)
    \/ Serve /\ \E f \in FileIds, md5 \in Hashes, ossOk \in BOOLEAN : UploadFile(f, md5, ossOk)
    \/ Serve /\ \E f \in FileIds, reqSize \in ReqSizes, ossOk \in BOOLEAN :
            InitMultipartUpload(f, reqSize, ossOk)
    \/ Serve /\ \E f \in FileIds, idx \in 1..MaxChunkIndex, ossOk \in BOOLEAN :
            UploadChunk(f, idx, ossOk)
    \/ Serve /\ \E f \in FileIds, md5 \in Hashes, fail \in {"none", "complete", "md5", "delete"},
          abortOk \in BOOLEAN : CompleteMultipartUpload(f, md5, fail, abortOk)
    \/ Serve /\ \E f \in FileIds, abortOk \in BOOLEAN : AbortMultipartUpload(f, abortOk)
    \/ Serve /\ \E f \in FileIds : RetryFile(f)
    \/ Serve /\ \E f \in FileIds, key \in ClientKeys, md5 \in {NoMd5}, size \in {0} :
            MarkFileCompleted(f, key, md5, size)
    \/ Serve /\ \E f \in FileIds, key \in ClientKeys, md5 \in {NoMd5}, drive \in Drives :
            OssCallback(f, key, md5, tf[f].file_size, drive)
    \/ Serve /\ CancelTask

Spec == Init /\ [][Next]_vars

\* Concurrent create_task requests against the folders table.
NextFolder ==
    \/ \E c \in Callers, path \in FolderPaths : FolderBegin(c, path) /\ UNCHANGED <<uploadVars, ops, reqVars, foreign, createVars, exported>>
    \/ \E c \in Callers : FolderLookup(c) /\ UNCHANGED <<uploadVars, ops, reqVars, foreign, createVars, exported>>
    \/ \E c \in Callers : FolderWalk(c) /\ UNCHANGED <<uploadVars, ops, reqVars, foreign, createVars, exported>>
    \/ \E c \in Callers : FolderCommit(c) /\ UNCHANGED <<uploadVars, ops, reqVars, foreign, createVars, exported>>

SpecFolder == Init /\ [][NextFolder]_vars

\* The requests that fail and reset one TaskFile, without a budget of requests.
NextRetry ==
    \/ \E m \in Manifests : CreateTask(m) /\ UNCHANGED <<ops, folderVars, reqVars, foreign, createVars, exported>>
    \/ \E f \in FileIds, md5 \in Hashes, ossOk \in BOOLEAN :
            UploadFile(f, md5, ossOk) /\ UNCHANGED <<ops, folderVars, reqVars, foreign, createVars, exported>>
    \/ \E f \in FileIds, reqSize \in ReqSizes, ossOk \in BOOLEAN :
            InitMultipartUpload(f, reqSize, ossOk) /\ UNCHANGED <<ops, folderVars, reqVars, foreign, createVars, exported>>
    \/ \E f \in FileIds, abortOk \in BOOLEAN :
            AbortMultipartUpload(f, abortOk) /\ UNCHANGED <<ops, folderVars, reqVars, foreign, createVars, exported>>
    \/ \E f \in FileIds : RetryFile(f) /\ UNCHANGED <<ops, folderVars, reqVars, foreign, createVars, exported>>

SpecRetry == Init /\ [][NextRetry]_vars

\* Concurrent upload_chunk requests on the chunk sessions of one task.
NextChunk ==
    \/ \E m \in Manifests : CreateTask(m) /\ UNCHANGED <<ops, folderVars, reqVars, foreign, createVars, exported>>
    \/ \E f \in FileIds, reqSize \in ReqSizes, ossOk \in BOOLEAN :
            InitMultipartUpload(f, reqSize, ossOk) /\ UNCHANGED <<ops, folderVars, reqVars, foreign, createVars, exported>>
    \/ \E c \in Callers, f \in FileIds, idx \in 1..MaxChunkIndex : ChunkLoad(c, f, idx)
    \/ \E c \in Callers, ossOk \in BOOLEAN : ChunkPut(c, ossOk)
    \/ \E c \in Callers : ChunkCommit(c)

SpecChunk == Init /\ [][NextChunk]_vars

\* Concurrent upload_file requests, one per TaskFile of the task.
NextUpload ==
    \/ \E m \in Manifests : CreateTask(m) /\ UNCHANGED <<ops, folderVars, reqVars, foreign, createVars, exported>>
    \/ \E f \in FileIds, md5 \in Hashes : UpBegin(f, md5)
    \/ \E f \in FileIds, ossOk \in BOOLEAN : UpResolve(f, ossOk)
    \/ \E f \in FileIds : UpRescan(f)
    \/ \E f \in FileIds : UpWrite(f)
    \/ \E f \in FileIds : UpCheck(f)

SpecUpload == Init /\ [][NextUpload]_vars

\* Requests of the task's owner and of another user.
NextOwner ==
    \/ \E m \in Manifests : CreateTask(m) /\ UNCHANGED <<ops, folderVars, reqVars, foreign, createVars, exported>>
    \/ \E u \in Users, items \in CheckItems :
            AsUser(u, CheckFilesExist(items)) /\ UNCHANGED <<ops, folderVars, reqVars, createVars, exported>>
    \/ \E items \in CheckItems :
            ForeignCheckFilesExist(items) /\ UNCHANGED <<ops, folderVars, reqVars, createVars, exported>>
    \/ \E u \in Users, f \in FileIds, md5 \in Hashes, ossOk \in BOOLEAN :
            AsUser(u, UploadFile(f, md5, ossOk)) /\ UNCHANGED <<ops, folderVars, reqVars, createVars, exported>>
    \/ \E u \in Users, f \in FileIds :
            AsUser(u, RetryFile(f)) /\ UNCHANGED <<ops, folderVars, reqVars, createVars, exported>>
    \/ \E u \in Users : AsUser(u, CancelTask) /\ UNCHANGED <<ops, folderVars, reqVars, createVars, exported>>

SpecOwner == Init /\ [][NextOwner]_vars

\* Concurrent create_task requests, and the completion check on their tasks.
NextCreate ==
    \/ \E c \in Callers, drive \in RequestDrives, path \in FolderPaths, n \in DeclaredCounts :
            CreateBegin(c, drive, path, n) /\ UNCHANGED <<uploadVars, ops, reqVars, foreign, exported>>
    \/ \E c \in Callers : CreateLookup(c) /\ UNCHANGED <<uploadVars, ops, reqVars, foreign, exported>>
    \/ \E c \in Callers : CreateWalk(c) /\ UNCHANGED <<uploadVars, ops, reqVars, foreign, exported>>
    \/ \E c \in Callers : CreateCommit(c) /\ UNCHANGED <<uploadVars, ops, reqVars, foreign, exported>>
    \/ \E t \in TaskRows : CompletionCheck(t) /\ UNCHANGED <<uploadVars, ops, reqVars, foreign, exported>>

SpecCreate == Init /\ [][NextCreate]_vars

\* Requests served one after another, export-manifest requests among them.
NextExport ==
    \/ ServeOther /\ \E m \in Manifests : CreateTask(m)
    \/ ServeOther /\ \E f \in FileIds, md5 \in Hashes, ossOk \in BOOLEAN : UploadFile(f, md5, ossOk)
    \/ ServeOther /\ \E f \in FileIds, reqSize \in ReqSizes, ossOk \in BOOLEAN :
            InitMultipartUpload(f, reqSize, ossOk)
    \/ ServeOther /\ \E f \in FileIds, idx \in 1..MaxChunkIndex, ossOk \in BOOLEAN :
            UploadChunk(f, idx, ossOk)
    \/ ServeOther /\ \E f \in FileIds, md5 \in Hashes, fail \in {"none", "complete", "md5", "delete"},
          abortOk \in BOOLEAN : CompleteMultipartUpload(f, md5, fail, abortOk)
    \/ ServeOther /\ \E f \in FileIds, key \in ClientKeys, md5 \in {NoMd5}, size \in {0} :
            MarkFileCompleted(f, key, md5, size)
    \/ ExportStorageManifest /\ UNCHANGED <<ops, folderVars, reqVars, foreign, createVars>>

SpecExport == Init /\ [][NextExport]_vars

\* create_task requests served one after another.
NextEnsure ==
    \/ \E c \in Callers : NoneInFlight /\ EnsureRoot(c) /\ UNCHANGED <<uploadVars, ops, reqVars, foreign, createVars, exported>>
    \/ \E c \in Callers, path \in FolderPaths :
            NoneInFlight /\ FolderBegin(c, path) /\ UNCHANGED <<uploadVars, ops, reqVars, foreign, createVars, exported>>
    \/ \E c \in Callers : FolderLookup(c) /\ UNCHANGED <<uploadVars, ops, reqVars, foreign, createVars, exported>>
    \/ \E c \in Callers : FolderWalk(c) /\ UNCHANGED <<uploadVars, ops, reqVars, foreign, createVars, exported>>
    \/ \E c \in Callers : FolderCommit(c) /\ UNCHANGED <<uploadVars, ops, reqVars, foreign, createVars, exported>>

SpecEnsure == Init /\ [][NextEnsure]_vars

\* ================================================================== claims
AllSuccess == task # << >> /\ \A f \in DOMAIN tf : IsCompleted(tf[f])

\* C1: in every reachable state uploaded_files is the number of the task's
\* TaskFiles in COMPLETED or SKIPPED and uploaded_size is the sum of their sizes.
C1_RollupConsistency ==
    task # << >> =>
        LET done == {f \in DOMAIN tf : IsCompleted(tf[f])}
        IN /\ task[1].uploaded_files = Cardinality(done)
           /\ task[1].uploaded_size =
                 SumOver(done, [f \in DOMAIN tf |-> tf[f].file_size])

\* C2: when a single-shot upload, a check-exists skip or a completeMultipart
\* turns the last TaskFile that was not yet successful into COMPLETED or
\* SKIPPED, the task ends that operation COMPLETED, with completed_at stamped
\* and the storage manifest stored.
C2_CompletionOnLastFile ==
    [][((\/ \E f \in FileIds, md5 \in Hashes, ossOk \in BOOLEAN : UploadFile(f, md5, ossOk)
         \/ \E items \in CheckItems : CheckFilesExist(items)
         \/ \E f \in FileIds, md5 \in Hashes, fail \in {"none", "complete", "md5", "delete"},
               abortOk \in BOOLEAN : CompleteMultipartUpload(f, md5, fail, abortOk))
        /\ ~AllSuccess /\ AllSuccess')
       => /\ task'[1].status = COMPLETED
          /\ task'[1].completed_at # NoTime
          /\ task'[1].storage_manifest # << >>]_vars

\* C3: for a TaskFile with an open chunk session, uploadedCount is the number
\* of distinct chunk indices the blob store received for that session, however
\* the uploadChunk calls were ordered or repeated.
C3_ChunkAccounting ==
    \A f \in DOMAIN tf :
        tf[f].chunk_info # << >> =>
            \A m \in OpenSession(tf[f].oss_key, tf[f].chunk_info[1].upload_id) :
                UploadedCount(tf[f].chunk_info[1]) = Cardinality({q[1] : q \in m.parts})

\* C4: once the task is COMPLETED no later event sets its status to UPLOADING.
C4_CompletionMonotonic ==
    [][(task # << >> /\ task[1].status = COMPLETED)
          => task'[1].status # UPLOADING]_vars

\* C5: when a file is transferred whose content hash is that of another
\* TaskFile of the task already transferred, no further object is written to
\* the blob store and the file ends in a success state.
C5_DedupConservation ==
    [][\A f \in FileIds, md5 \in Hashes :
          (/\ UploadFile(f, md5, TRUE)
           /\ \E g \in FileIds \ {f} : IsCompleted(tf[g]) /\ tf[g].md5 = md5
                                       /\ MatchingRows(files, md5) # {})
          => /\ ossWrites' = ossWrites
             /\ IsCompleted(tf'[f])]_vars

\* C6: retryFile resets one TaskFile at most MaxRetries times, whatever way the
\* file failed.
C6_RetryBudget == \A f \in FileIds : retried[f] <= MaxRetries

\* C7: when no create_task request is in flight, the folders table holds at
\* most one row per path and no request has failed.
C7_FolderIdempotence ==
    (\A c \in Callers : fpc[c] \in {"idle", "done", "failed"})
       => /\ \A r1, r2 \in folders : r1.path = r2.path => r1 = r2
          /\ \A c \in Callers : fpc[c] # "failed"

\* C8: a task in COMPLETED, FAILED or CANCELLED keeps its status in every
\* later step.
C8_TerminalAbsorbing ==
    [][(task # << >> /\ task[1].status \in {COMPLETED, FAILED, CANCELLED})
          => task'[1].status = task[1].status]_vars

\* C9: no step sets the task to COMPLETED, or stores a storage manifest, while
\* it leaves a TaskFile outside COMPLETED and SKIPPED.
C9_NoCompletionWithFailedFile ==
    [][(task # << >> /\ ~AllSuccess')
          => /\ task'[1].status = COMPLETED => task[1].status = COMPLETED
             /\ task'[1].storage_manifest # << >> => task[1].storage_manifest # << >>]_vars

\* C10: in every reachable state uploaded_files <= total_files and
\* uploaded_size <= total_size, whatever totals the manifest declared.
C10_RollupsWithinTotals ==
    task # << >> =>
        /\ task[1].uploaded_files <= task[1].total_files
        /\ task[1].uploaded_size <= task[1].total_size

\* C11: after a batch check-exists, every submitted item whose hash matches an
\* existing File has its TaskFile SKIPPED, flagged as a duplicate of a matched
\* File, with the matched object key copied and a new File row sharing that
\* key, the older File rows unchanged; TaskFiles of items without a match are
\* left as they were.
C11_CheckExistsSkipsHits ==
    [][\A items \in CheckItems :
          CheckFilesExist(items) =>
             \A f \in DOMAIN items :
                IF MatchingRows(files, items[f]) # {}
                THEN /\ tf'[f].status = SKIPPED
                     /\ tf'[f].is_duplicated
                     /\ tf'[f].duplicated_from \in MatchingRows(files, items[f])
                     /\ tf'[f].file_id \in Rows(files') \ Rows(files)
                     /\ files'[tf'[f].file_id].oss_key = tf'[f].oss_key
                     /\ SubSeq(files', 1, Len(files)) = files
                ELSE tf'[f] = tf[f]]_vars

\* A step of one of the three operations that resolve a TaskFile through the
\* transfer coordinator.
ResolvingStep ==
    \/ \E items \in CheckItems : CheckFilesExist(items)
    \/ \E f \in FileIds, md5 \in Hashes, ossOk \in BOOLEAN : UploadFile(f, md5, ossOk)
    \/ \E f \in FileIds, md5 \in Hashes, fail \in {"none", "complete", "md5", "delete"},
          abortOk \in BOOLEAN : CompleteMultipartUpload(f, md5, fail, abortOk)

C13_DuplicationFlags ==
    \A f \in DOMAIN tf :
       IsCompleted(tf[f]) =>
          \/ ~tf[f].is_duplicated /\ tf[f].duplicated_from = NoFile
          \/ tf[f].is_duplicated /\ tf[f].duplicated_from # NoFile

\* One TaskFile transferred twice: it is COMPLETED on the second File row,
\* both rows hold server-generated keys, and no other TaskFile was touched.
C13_Witness ==
    /\ task # << >>
    /\ Len(files) = 2
    /\ \A i \in Rows(files) : files[i].oss_key > NoKey
    /\ \E f \in DOMAIN tf :
          /\ IsCompleted(tf[f]) /\ tf[f].file_id = 2
          /\ \A g \in DOMAIN tf \ {f} :
                tf[g] = NewTaskFile(tf[g].file_size, tf[g].md5)

\* C14: when two upload_chunk requests for the same TaskFile and chunk
\* session, with different chunk indices, have both finished, the chunk session
\* holds both indices with their tags and uploadedCount counts both, however
\* the two requests interleaved.
C14_ConcurrentChunksRecorded ==
    \A c, d \in Callers :
       LET r == creq[c]
           q == creq[d]
       IN (/\ c # d
           /\ r.pc = "done" /\ q.pc = "done"
           /\ r.f = q.f /\ r.idx # q.idx
           /\ tf[r.f].chunk_info # << >>
           /\ r.loaded[1].upload_id = tf[r.f].chunk_info[1].upload_id
           /\ q.loaded[1].upload_id = tf[r.f].chunk_info[1].upload_id)
          => LET ci == tf[r.f].chunk_info[1]
             IN /\ \E i \in 1..Len(ci.uploaded_chunks) : ci.uploaded_chunks[i] = r.idx
                /\ \E i \in 1..Len(ci.uploaded_chunks) : ci.uploaded_chunks[i] = q.idx
                /\ <<r.idx, Etag(ci.upload_id, r.idx)>> \in ci.chunk_etags
                /\ <<q.idx, Etag(ci.upload_id, q.idx)>> \in ci.chunk_etags
                /\ UploadedCount(ci) >= 2

\* C15: once concurrent upload_file requests for different TaskFiles of one
\* task have all finished successfully, uploaded_files and uploaded_size count
\* every completed file, and when these were the last files the task is
\* COMPLETED with a stored manifest.
C15_ConcurrentCompletionCounted ==
    (task # << >> /\ \A f \in FileIds : ureq[f].pc = "done")
    => LET done == {f \in DOMAIN tf : IsCompleted(tf[f])}
           size == [f \in DOMAIN tf |-> tf[f].file_size]
       IN /\ task[1].uploaded_files = Cardinality(done)
          /\ task[1].uploaded_size = SumOver(done, size)
          /\ done = DOMAIN tf =>
                task[1].status = COMPLETED /\ task[1].storage_manifest # << >>

\* C16: retryFile on a TaskFile that is FAILED with retry_count below the
\* maximum resets it to PENDING, clears the error and the progress and leaves
\* retry_count and every other field as they were; on any other TaskFile the
\* request is rejected and the TaskFiles are unchanged.
C16_RetrySemantics ==
    [][\A f \in FileIds :
          RetryFile(f) =>
             IF tf[f].status = FAILED /\ tf[f].retry_count < MaxRetries
             THEN /\ tf'[f] = [tf[f] EXCEPT !.status = PENDING,
                                            !.error_message = "NULL",
                                            !.upload_progress = <<0, 1>>]
                  /\ tf'[f].retry_count = tf[f].retry_count
                  /\ \A g \in DOMAIN tf \ {f} : tf'[g] = tf[g]
             ELSE tf' = tf]_vars

\* A TaskFile that failed and was reset by retryFile.
C16_Witness ==
    \E f \in DOMAIN tf :
       /\ retried[f] >= 1
       /\ tf[f].status = PENDING
       /\ tf[f].retry_count >= 1
       /\ tf[f].error_message = "NULL"
       /\ tf[f].upload_progress = <<0, 1>>

\* C17: in every reachable state every TaskFile has retry_count at most the
\* retry maximum, also when transfer operations are invoked on a TaskFile that
\* is already FAILED.
C17_RetryCountBounded ==
    \A f \in DOMAIN tf : tf[f].retry_count <= MaxRetries

\* C18: when a step of a single-shot upload raises, the TaskFile ends FAILED
\* with retry_count exactly one higher and the error recorded, no File row is
\* created, and the task's status and rollups are unchanged.
C18_UploadFailureContained ==
    [][\A f \in FileIds, md5 \in Hashes, ossOk \in BOOLEAN :
          (UploadFile(f, md5, ossOk) /\ ~UploadFileResult(DB, f, md5, nextKey, ossOk).ok)
          => /\ tf'[f].status = FAILED
             /\ tf'[f].retry_count = tf[f].retry_count + 1
             /\ tf'[f].error_message # "NULL"
             /\ files' = files
             /\ task'[1].status = task[1].status
             /\ task'[1].uploaded_files = task[1].uploaded_files
             /\ task'[1].uploaded_size = task[1].uploaded_size]_vars

\* The chunk session the TaskFile names is open in the blob store.
SessionOpen(f) ==
    OpenSession(tf[f].oss_key, tf[f].chunk_info[1].upload_id) # {}

\* C19: when a completeMultipart on an open chunk session fails at any step
\* (assembling, retrieving the hash, deleting the duplicate object or creating
\* the File row) and the abort call itself succeeds, the session does not stay
\* open and the TaskFile ends FAILED with retry_count one higher.
C19_CompleteFailureAborts ==
    [][\A f \in FileIds, md5 \in Hashes, fail \in {"none", "complete", "md5", "delete"} :
          (/\ CompleteMultipartUpload(f, md5, fail, TRUE)
           /\ SessionOpen(f)
           /\ tf'[f].status # COMPLETED)
          => /\ tf'[f].status = FAILED
             /\ tf'[f].retry_count = tf[f].retry_count + 1
             /\ \A m \in ossSessions' :
                   m.id = tf[f].chunk_info[1].upload_id => m.state # "open"]_vars

\* The chunk session of the TaskFile is open and holds a part, so the blob
\* store can assemble the object.
CanAssemble(f) ==
    \E m \in OpenSession(tf[f].oss_key, tf[f].chunk_info[1].upload_id) : m.parts # {}

\* C20: a completeMultipart whose blob-store calls all succeed leaves the
\* TaskFile COMPLETED: as a duplicate carrying the key of a File with the same
\* hash, the assembled object deleted, when such a File exists; otherwise as an
\* original carrying the key of the assembled object, which stays in the store.
C20_PostTransferDedup ==
    [][\A f \in FileIds, md5 \in Hashes, abortOk \in BOOLEAN :
          (CompleteMultipartUpload(f, md5, "none", abortOk) /\ CanAssemble(f))
          => LET hits == MatchingRows(files, md5)
                 obj == [key |-> tf[f].oss_key, md5 |-> md5]
             IN IF hits # {}
                THEN /\ tf'[f].status = COMPLETED
                     /\ tf'[f].is_duplicated
                     /\ \E i \in hits : tf'[f].oss_key = files[i].oss_key
                     /\ obj \notin ossObjects'
                ELSE /\ tf'[f].status = COMPLETED
                     /\ ~tf'[f].is_duplicated
                     /\ tf'[f].oss_key = tf[f].oss_key
                     /\ obj \in ossObjects']_vars

\* C21: a task that is COMPLETED carries a storage manifest and a completion
\* time, whichever request completed it, and a manifest is attached to a task
\* only by a step that leaves it COMPLETED.
C21_ManifestAtCompletion ==
    [][task' # << >> =>
          /\ task'[1].status = COMPLETED =>
                task'[1].storage_manifest # << >> /\ task'[1].completed_at # NoTime
          /\ (task'[1].storage_manifest # << >>
              /\ (task = << >> \/ task[1].storage_manifest = << >>))
             => task'[1].status = COMPLETED]_vars

\* C22: a completion notification (mark-file-complete or the upload callback)
\* for a TaskFile that an earlier notification already completed leaves
\* uploaded_files and uploaded_size as they were and adds no File row.
C22_NotificationIdempotent ==
    [][\A f \in FileIds, key \in ClientKeys :
          (/\ \/ MarkFileCompleted(f, key, NoMd5, 0)
              \/ \E drive \in Drives : OssCallback(f, key, NoMd5, tf[f].file_size, drive)
           /\ tf[f].status = COMPLETED
           /\ tf[f].oss_key \in ClientKeys
           /\ tf[f].file_id # NoFile)
          => /\ task'[1].uploaded_files = task[1].uploaded_files
             /\ task'[1].uploaded_size = task[1].uploaded_size
             /\ files' = files]_vars

C24_TransportFailureFailsFile ==
    [][\A f \in FileIds :
          (\/ UNCHANGED reqVars /\ \E reqSize \in ReqSizes : InitMultipartUpload(f, reqSize, FALSE)
           \/ UNCHANGED reqVars /\ \E idx \in 1..MaxChunkIndex : UploadChunk(f, idx, FALSE)
           \/ \E c \in Callers : creq[c].f = f /\ ChunkPut(c, FALSE))
          => /\ tf'[f].status = FAILED
             /\ tf'[f].error_message # "NULL"
             /\ tf'[f].retry_count = tf[f].retry_count + 1
             /\ task'[1].status # FAILED]_vars

\* C25: uploadChunk, completeMultipart and abortMultipart on a TaskFile that
\* has no chunk session are each rejected as a client error (HTTP 400).
C25_NoSessionRejected ==
    \A f \in DOMAIN tf :
       tf[f].chunk_info = << >> =>
          \A op \in MultipartOps : MultipartReply(op, tf[f]) = "400"

\* C26: create_task for a drive the caller cannot access answers NotFound and
\* persists nothing; for an accessible drive it answers otherwise. A request
\* that ended in NotFound or in an error has no task, TaskFile or Folder row
\* in the database, nor has a request that has not committed yet; the commit
\* adds one PENDING task and exactly one PENDING TaskFile per declared file.
C26_CreateTaskAtomic ==
    [][\A c \in Callers :
          LET id == <<c, fcalls'[c]>>
              mine == {r \in rows' : \/ r.kind = "task" /\ r.id = id
                                     \/ r.kind = "task_file" /\ r.task_id = id}
              myFolders == {r \in folders' : r.id[1] = c /\ r.id[2] = fcalls'[c]}
          IN /\ \A drive \in RequestDrives :
                   (\E path \in FolderPaths, n \in DeclaredCounts : CreateBegin(c, drive, path, n))
                   => /\ GetDrive(TaskOwner, drive) = {} <=> fpc'[c] = "notfound"
                      /\ UNCHANGED <<rows, folders>>
             /\ fpc'[c] # "done" => mine = {} /\ myFolders = {}
             /\ (fpc[c] = "commit" /\ fpc'[c] = "done") =>
                   \E t \in mine :
                      /\ t.kind = "task" /\ t.status = PENDING
                      /\ Cardinality(mine) = t.declared + 1
                      /\ \A r \in mine \ {t} : r.row.status = PENDING]_vars

\* C27: a task without TaskFiles is never completed by the completion check:
\* it stays out of COMPLETED and has no stored manifest.
C27_EmptyTaskNotCompleted ==
    \A t \in TaskRows :
       TaskFilesOf(t) = {} => t.status # COMPLETED /\ t.storage_manifest = << >>

\* C28: the manifest stored at completion has one files[] entry per TaskFile
\* of the task, and for every TaskFile local_to_oss maps its local path to its
\* object key, local_to_virtual maps its local path to its virtual path, and
\* oss_to_file_id maps its object key to its File id.
C28_ManifestAccountsForEveryFile ==
    [][(task' # << >> /\ task'[1].storage_manifest # << >>
        /\ (task = << >> \/ task[1].storage_manifest # task'[1].storage_manifest))
       => LET M == task'[1].storage_manifest[1]
              db == [task |-> task'[1], tf |-> tf', files |-> files']
          IN /\ M.entries = DOMAIN tf'
             /\ \A f \in DOMAIN tf' :
                   /\ LocalPath(db, f) \in DOMAIN M.mappings.local_to_oss
                   /\ M.mappings.local_to_oss[LocalPath(db, f)] = tf'[f].oss_key
                   /\ M.mappings.local_to_virtual[LocalPath(db, f)] = VirtualPath(db, f)
                   /\ tf'[f].oss_key \in DOMAIN M.mappings.oss_to_file_id
                   /\ M.mappings.oss_to_file_id[tf'[f].oss_key] = tf'[f].file_id]_vars

C30_ProgressInRange ==
    [][\A f \in DOMAIN tf' :
          LET p == tf'[f].upload_progress
          IN /\ 0 <= p[1] /\ p[1] <= 100 * p[2]
             /\ (tf'[f].chunk_info # << >> /\ tf'[f].status = UPLOADING) =>
                   LET ci == tf'[f].chunk_info[1]
                   IN /\ UploadedCount(ci) <= ci.total_chunks
                      /\ p[1] * ci.total_chunks = 100 * UploadedCount(ci) * p[2]
             /\ \A reqSize \in ReqSizes :
                   InitMultipartUpload(f, reqSize, TRUE) =>
                      LET n == tf'[f].chunk_info[1].total_chunks
                      IN n * CHUNK_SIZE >= reqSize /\ (n > 0 => (n - 1) * CHUNK_SIZE < reqSize)]_vars

\* C31: whatever file-level events have happened, the task's status is one
\* of PENDING, UPLOADING, COMPLETED, CANCELLED: no file failure fails the task.
C31_TaskNeverFailedByFiles ==
    task # << >> => task[1].status \in {PENDING, UPLOADING, COMPLETED, CANCELLED}

\* One file failed by an aborted multipart transfer, another failed by an
\* upload that raised.
C31_Witness ==
    /\ task # << >>
    /\ \E f, g \in DOMAIN tf :
          /\ f # g
          /\ tf[f].status = FAILED /\ tf[f].error_message = "aborted"
          /\ tf[g].status = FAILED /\ tf[g].retry_count >= 1

\* C32: a TaskFile has a chunk session only while it is UPLOADING; a TaskFile
\* in PENDING, FAILED, COMPLETED or SKIPPED has none.
C32_ChunkInfoOnlyWhileUploading ==
    \A f \in DOMAIN tf : tf[f].chunk_info # << >> => tf[f].status = UPLOADING

\* C33: a batch check-exists call by the task's owner never fails as a whole
\* because of one of its files: the loop over the items does not raise.
C33_BatchNeverFailsWhole ==
    [][\A items \in CheckItems :
          CheckFilesExist(items) => ~CheckLoop(DB, items, DOMAIN items).raised]_vars

\* C34: an export-manifest request by a user who does not own the task is
\* answered with NotFound and an empty body, whatever the task's files are.
C34_ForeignExportNotFound ==
    task # << >> =>
        \A u \in Users \ {TaskOwner} :
            ExportReplyTo(u, DB).code = 404 /\ ExportReplyTo(u, DB).body = << >>

\* C35: with requests served one after another, a request for the root path
\* returns no folder and adds no row; a request for another path adds a row
\* for exactly those prefixes of the path that had none, each with the row of
\* the previous prefix as parent and its segment index as level, and returns
\* the row of the whole path; the table never holds two rows of one path, so
\* a repeated request adds nothing and returns the same row.
C35_SequentialMaterialization ==
    [][\A c \in Callers :
          (fpc[c] = "commit" /\ fpc'[c] = "done") =>
             LET path == fpath[c]
                 Prefixes == {SubSeq(path, 1, n) : n \in 1..Len(path)}
                 at(q) == CHOOSE r \in folders' : r.path = q
             IN /\ {r.path : r \in folders' \ folders} =
                      {q \in Prefixes : \A r \in folders : r.path # q}
                /\ \A r1, r2 \in folders' : r1.path = r2.path => r1 = r2
                /\ \A q \in Prefixes :
                      /\ \E r \in folders' : r.path = q
                      /\ at(q).level = Len(q) - 1
                      /\ at(q).parent_id = IF Len(q) = 1 THEN NoFolder
                                           ELSE <<at(SubSeq(q, 1, Len(q) - 1)).id>>
                /\ fparent[c] = IF path = RootPath THEN NoFolder ELSE <<at(path).id>>]_vars

\* The same two-segment path materialised by the requests of two clients, one
\* of them on its second request, with one row per prefix in the table.
C35_Witness ==
    /\ NoneInFlight
    /\ \E c, d \in Callers :
          /\ c # d /\ fcalls[c] = 2 /\ fpc[c] = "done" /\ fpc[d] = "done"
          /\ fpath[c] = <<"a", "b">> /\ fpath[d] = <<"a", "b">>
    /\ Cardinality(folders) = 2

\* C36 (scenario A): for a task of two files of one hash, 1000 bytes each, with
\* a File of that hash in the table, a batch check-exists naming both files
\* with that hash leaves both TaskFiles SKIPPED and answers storage_saved =
\* 1000 and new_files_count = 0 (or 1).
C36_ScenarioA ==
    [][LET items == [f \in FileIds |-> "h1"]
       IN (/\ CheckFilesExist(items)
           /\ task[1].upload_manifest.md5 = "h1"
           /\ \A f \in FileIds : tf[f].file_size = 1000
           /\ MatchingRows(files, "h1") # {})
          => /\ \A f \in FileIds : tf'[f].status = SKIPPED
             /\ CheckFilesExistReply(DB, items).code = 200
             /\ CheckFilesExistReply(DB, items).storage_saved = 1000
             /\ CheckFilesExistReply(DB, items).new_files_count \in {0, 1}]_vars

C38_SuccessStateStays ==
    [][\A f \in DOMAIN tf :
          IsCompleted(tf[f]) =>
             /\ tf'[f].status = tf[f].status
             /\ tf'[f].file_id = tf[f].file_id
             /\ tf'[f].oss_key = tf[f].oss_key]_vars

\* C39: every multipart session of the blob store that is neither completed
\* nor aborted is the chunk session recorded in some TaskFile.
C39_NoOrphanedSession ==
    \A m \in ossSessions :
       m.state = "open" =>
          \E f \in DOMAIN tf :
             tf[f].chunk_info # << >> /\ tf[f].chunk_info[1].upload_id = m.id

\* C40: the manifest stored in a task records status COMPLETED and the
\* completed_at of the task.
C40_StoredManifestDescribesCompletion ==
    (task # << >> /\ task[1].storage_manifest # << >>) =>
        /\ task[1].storage_manifest[1].status = COMPLETED
        /\ task[1].storage_manifest[1].completed_at = task[1].completed_at

====
